---- MODULE Spec2Model ----
(***************************************************************************)
(* A model of the NEXUS PORTRAIT repository:                               *)
(*   - frontend/src/services/api.ts      (generateImage, healthCheck,      *)
(*                                        verifyImage)                     *)
(*   - frontend/src/screens/CreationScreen.tsx   (the Generate screen)     *)
(*   - frontend/src/screens/DetectionScreen.tsx  (the Verify screen)       *)
(*   - init-frontend.sh                  (the scaffolding script)          *)
(*                                                                         *)
(* Each component has its own specification over the shared variables:     *)
(*   SpecApi, SpecCreation, SpecDetection, SpecInit.                       *)
(***************************************************************************)
EXTENDS Integers, Sequences, FiniteSets

VARIABLES
    call,       \* the frame of the api.ts function being executed
    fetchLog,   \* every request handed to fetch(), in order
    creation,   \* the React state of CreationScreen
    detection,  \* the React state of DetectionScreen, one copy per run
    script      \* the state of one run of init-frontend.sh

vars == <<call, fetchLog, creation, detection, script>>

(***************************************************************************)
(* JavaScript values                                                       *)
(***************************************************************************)

\* Strings that are only concatenated or compared are TLA+ strings; a string
\* that is trimmed is a sequence of one-character strings.
Undefined == [t |-> "undefined"]
Null == [t |-> "null"]
Str(s) == [t |-> "string", v |-> s]
Bool(b) == [t |-> "boolean", v |-> b]
\* An array holding one object, as in FastAPI's 422 body {"detail": [{...}]}.
ObjArray == [t |-> "array"]

\* ToBoolean: undefined, null and the empty string are falsy.
Truthy(x) ==
    CASE x.t = "undefined" -> FALSE
      [] x.t = "null" -> FALSE
      [] x.t = "string" -> Len(x.v) > 0
      [] x.t = "boolean" -> x.v
      [] OTHER -> TRUE

\* ToString, as applied by new Error(message) and by template literals.
ToString(x) ==
    CASE x.t = "undefined" -> "undefined"
      [] x.t = "null" -> "null"
      [] x.t = "string" -> x.v
      [] x.t = "array" -> "[object Object]"

\* White space of String.prototype.trim, restricted to the model's alphabet.
IsWhiteSpace(c) == c \in {" ", "\n"}

RECURSIVE TrimStart(_)
TrimStart(s) ==
    IF s = <<>> THEN s
    ELSE IF IsWhiteSpace(Head(s)) THEN TrimStart(Tail(s)) ELSE s

RECURSIVE TrimEnd(_)
TrimEnd(s) ==
    IF s = <<>> THEN s
    ELSE IF IsWhiteSpace(s[Len(s)]) THEN TrimEnd(SubSeq(s, 1, Len(s) - 1)) ELSE s

\* String.prototype.trim
trim(s) == TrimEnd(TrimStart(s))

\* Array.prototype.slice(0, n) for n >= 0
slice(s, n) == SubSeq(s, 1, IF n < Len(s) THEN n ELSE Len(s))

\* Array.prototype.filter((_, i) => i !== index), index counted from 0
RemoveAt(s, index) ==
    [i \in 1..(Len(s) - 1) |-> IF i <= index THEN s[i] ELSE s[i + 1]]

(***************************************************************************)
(* services/api.ts                                                         *)
(***************************************************************************)

API_BASE == "http://localhost:8000"

\* The files and texts the calls are made with.
Files == {"a.png", "b.png"}

\* The longest file list handed to generateImage or to handleFiles.
MaxFiles == 6

\* The file lists of length 0..MaxFiles tried: the files alternate, starting
\* with either one, so that order is observable.
FileLists ==
    {[i \in 1..n |-> IF i % 2 = 1 THEN f ELSE CHOOSE g \in Files : g # f] :
        n \in 0..MaxFiles, f \in Files}

\* watermarkText arguments: absent, empty, blank, and texts with white space
\* at either end.
WatermarkTexts ==
    {Undefined, Str(<<>>), Str(<<" ">>), Str(<<"\n", " ">>), Str(<<"a">>),
     Str(<<" ", "a">>), Str(<<"a", " ">>)}

\* A JSON object of a response body; absent fields are undefined.
Obj(detail, image, mock_mode, watermark_embedded) ==
    [t |-> "object", detail |-> detail, image |-> image,
     mock_mode |-> mock_mode, watermark_embedded |-> watermark_embedded]

\* Response bodies: not JSON, the JSON value null, or a JSON object (a JSON
\* number, string or boolean reads like an object without fields).
Bodies ==
    {[json |-> FALSE], [json |-> TRUE, value |-> Null]}
    \cup {[json |-> TRUE, value |-> Obj(d, i, m, w)] :
            d \in {Undefined, Str(""), Str("bad input"), ObjArray},
            i \in {Undefined, Str("iVBORw0KGgo=")},
            m \in {Undefined, Bool(TRUE)},
            w \in {Bool(FALSE), Bool(TRUE)}}

\* What fetch() settles with: a rejection (the request failed), or a Response.
FetchRejected == [kind |-> "reject"]

Response(ok, statusText, body) ==
    [kind |-> "response", ok |-> ok, statusText |-> statusText, body |-> body]

FetchResults ==
    {FetchRejected}
    \cup {Response(TRUE, st, b) : st \in {"", "OK"}, b \in Bodies}
    \cup {Response(FALSE, st, b) : st \in {"", "Bad Request"}, b \in Bodies}

\* How a call ends.
Pending == [kind |-> "pending"]
Return(value) == [kind |-> "return", value |-> value]
Throw(error, message) == [kind |-> "throw", error |-> error, message |-> message]

\* FormData.append
Entry(name, value) == [name |-> name, value |-> value]

\* The argument to fetch()
Request(method, path, body) ==
    [method |-> method, url |-> API_BASE \o path, body |-> body]

Idle ==
    [fn |-> "none", pc |-> "idle", args |-> Null, request |-> Null,
     response |-> Null, outcome |-> Pending, console |-> <<>>]

\* A frame suspended at `await fetch(...)`.
Awaiting(fn, args, request) ==
    [fn |-> fn, pc |-> "awaitFetch", args |-> args, request |-> request,
     response |-> Null, outcome |-> Pending, console |-> <<>>]

\* A frame that threw before its first await.
Threw(fn, args, message) ==
    [fn |-> fn, pc |-> "done", args |-> args, request |-> Null,
     response |-> Null, outcome |-> Throw("Error", message), console |-> <<>>]

\* A variant of generateImageFormData that sends the trimmed text.
generateImageFormData_trimmed(files, watermarkText) ==
    [i \in 1..Len(files) |-> Entry("files", files[i])]
    \o (IF Truthy(watermarkText) /\ Truthy(Str(trim(watermarkText.v)))
        THEN <<Entry("watermark_text", Str(trim(watermarkText.v)))>>
        ELSE <<>>)

\* generateImage, lines 28-34: the multipart body.
generateImageFormData(files, watermarkText) ==
    [i \in 1..Len(files) |-> Entry("files", files[i])]
    \o (IF Truthy(watermarkText) /\ Truthy(Str(trim(watermarkText.v)))
        THEN <<Entry("watermark_text", watermarkText)>>
        ELSE <<>>)

\* A variant of generateImageEnter that checks the upper limit off by one.
generateImageEnter_offByOne(files, watermarkText) ==
    LET args == [files |-> files, watermarkText |-> watermarkText]
    IN  IF Len(files) = 0
        THEN Threw("generateImage", args, "At least one reference image is required")
        ELSE IF Len(files) > 6
        THEN Threw("generateImage", args, "Maximum 5 reference images allowed")
        ELSE Awaiting("generateImage", args,
                      Request("POST", "/api/generate-image",
                              generateImageFormData(files, watermarkText)))

\* generateImage up to its first await: the argument checks, then the request.
generateImageEnter(files, watermarkText) ==
    LET args == [files |-> files, watermarkText |-> watermarkText]
    IN  IF Len(files) = 0
        THEN Threw("generateImage", args, "At least one reference image is required")
        ELSE IF Len(files) > 5
        THEN Threw("generateImage", args, "Maximum 5 reference images allowed")
        ELSE Awaiting("generateImage", args,
                      Request("POST", "/api/generate-image",
                              generateImageFormData(files, watermarkText)))

\* `await response.json().catch(() => ({ detail: response.statusText }))`
ErrorBody(response) ==
    IF response.body.json THEN response.body.value
    ELSE Obj(Str(response.statusText), Undefined, Undefined, Undefined)

\* A variant of FailureOutcome that ignores the body's detail.
FailureOutcome_noDetail(response, prefix) ==
    Throw("Error", prefix \o response.statusText)

\* The `if (!response.ok)` block of generateImage and of verifyImage.
FailureOutcome(response, prefix) ==
    LET error == ErrorBody(response)
    IN  IF error.t = "null"
        THEN Throw("TypeError", "Cannot read properties of null (reading 'detail')")
        ELSE Throw("Error",
                   IF Truthy(error.detail) THEN ToString(error.detail)
                   ELSE prefix \o response.statusText)

\* A variant of generateImageOutcome that returns no image in mock mode.
generateImageOutcome_mock(result) ==
    IF result.kind = "reject" THEN Throw("TypeError", "Failed to fetch")
    ELSE IF ~result.ok THEN FailureOutcome(result, "Generation failed: ")
    ELSE IF ~result.body.json THEN Throw("SyntaxError", "Unexpected token")
    ELSE IF result.body.value.t = "null"
    THEN Throw("TypeError", "Cannot read properties of null (reading 'mock_mode')")
    ELSE IF Truthy(result.body.value.mock_mode) THEN Return(Str("data:image/png;base64,"))
    ELSE Return(Str("data:image/png;base64," \o ToString(result.body.value.image)))

\* generateImage after fetch settles: how the call ends.
generateImageOutcome(result) ==
    IF result.kind = "reject" THEN Throw("TypeError", "Failed to fetch")
    ELSE IF ~result.ok THEN FailureOutcome(result, "Generation failed: ")
    ELSE IF ~result.body.json THEN Throw("SyntaxError", "Unexpected token")
    ELSE IF result.body.value.t = "null"
    THEN Throw("TypeError", "Cannot read properties of null (reading 'mock_mode')")
    ELSE Return(Str("data:image/png;base64," \o ToString(result.body.value.image)))

\* generateImage, lines 48-54: what it logs on an OK response.
generateImageConsole(result) ==
    IF result.kind = "response" /\ result.ok /\ result.body.json
       /\ result.body.value.t = "object"
    THEN (IF Truthy(result.body.value.mock_mode)
          THEN <<"[API] Backend is in mock mode - returning reference image">>
          ELSE <<>>)
         \o (IF Truthy(result.body.value.watermark_embedded)
             THEN <<"[API] Watermark embedded successfully">>
             ELSE <<>>)
    ELSE <<>>

\* healthCheck up to its await.
healthCheckEnter == Awaiting("healthCheck", Null, Request("GET", "/health", Null))

\* A variant of healthCheckOutcome without the try/catch.
healthCheckOutcome_noCatch(result) ==
    IF result.kind = "reject" THEN Throw("TypeError", "Failed to fetch")
    ELSE Return(Bool(result.ok))

\* healthCheck after fetch settles: the catch turns a rejection into false.
healthCheckOutcome(result) ==
    IF result.kind = "reject" THEN Return(Bool(FALSE))
    ELSE Return(Bool(result.ok))

\* verifyImage up to its await.
verifyImageEnter(file) ==
    Awaiting("verifyImage", [file |-> file],
             Request("POST", "/api/verify", <<Entry("file", file)>>))

\* verifyImage after fetch settles.
verifyImageOutcome(result) ==
    IF result.kind = "reject" THEN Throw("TypeError", "Failed to fetch")
    ELSE IF ~result.ok THEN FailureOutcome(result, "Verification failed: ")
    ELSE IF ~result.body.json THEN Throw("SyntaxError", "Unexpected token")
    ELSE IF result.body.value.t = "null"
    THEN Throw("TypeError", "Cannot read properties of null (reading 'mock_mode')")
    ELSE Return(result.body.value)

\* verifyImage, lines 99-101.
verifyImageConsole(result) ==
    IF result.kind = "response" /\ result.ok /\ result.body.json
       /\ result.body.value.t = "object" /\ Truthy(result.body.value.mock_mode)
    THEN <<"[API] Backend is in mock mode - returning placeholder analysis">>
    ELSE <<>>

\* The frame once fetch has settled with `result`.
Settle(frame, result) ==
    [frame EXCEPT
        !.pc = "done",
        !.response = result,
        !.outcome = CASE frame.fn = "generateImage" -> generateImageOutcome(result)
                      [] frame.fn = "verifyImage" -> verifyImageOutcome(result)
                      [] frame.fn = "healthCheck" -> healthCheckOutcome(result),
        !.console = CASE frame.fn = "generateImage" -> generateImageConsole(result)
                      [] frame.fn = "verifyImage" -> verifyImageConsole(result)
                      [] frame.fn = "healthCheck" -> <<>>]

\* The requests a frame that has just been entered hands to fetch().
Fetched(frame) ==
    IF frame.pc = "awaitFetch"
    THEN <<[method |-> frame.request.method, url |-> frame.request.url]>>
    ELSE <<>>

\* The most fetch() calls followed in one behaviour.
MaxFetches == 2

\* The state the other components are left in by a component's specification.
CreationInit ==
    [sourceImages |-> <<>>, previewUrls |-> <<>>, activeIndex |-> 0,
     secretData |-> <<>>, isProcessing |-> FALSE, isComplete |-> FALSE,
     generatedImageUrl |-> Null, error |-> Null]

ApiInit ==
    /\ call = Idle
    /\ fetchLog = <<>>
    /\ creation = CreationInit
    /\ detection = <<>>
    /\ script = Null

\* A caller invokes generateImage(files, watermarkText).
CallGenerateImage ==
    \E files \in FileLists, watermarkText \in WatermarkTexts :
        /\ call.pc \in {"idle", "done"}
        /\ Len(fetchLog) < MaxFetches
        /\ call' = generateImageEnter(files, watermarkText)
        /\ fetchLog' = fetchLog \o Fetched(call')
        /\ UNCHANGED <<creation, detection, script>>

\* A caller invokes verifyImage(file).
CallVerifyImage ==
    \E file \in Files :
        /\ call.pc \in {"idle", "done"}
        /\ Len(fetchLog) < MaxFetches
        /\ call' = verifyImageEnter(file)
        /\ fetchLog' = fetchLog \o Fetched(call')
        /\ UNCHANGED <<creation, detection, script>>

\* A caller invokes healthCheck().
CallHealthCheck ==
    /\ call.pc \in {"idle", "done"}
    /\ Len(fetchLog) < MaxFetches
    /\ call' = healthCheckEnter
    /\ fetchLog' = fetchLog \o Fetched(call')
    /\ UNCHANGED <<creation, detection, script>>

\* fetch() settles and the suspended function runs to its end.
FetchSettles ==
    \E result \in FetchResults :
        /\ call.pc = "awaitFetch"
        /\ call' = Settle(call, result)
        /\ UNCHANGED <<fetchLog, creation, detection, script>>

ApiNext ==
    \/ CallGenerateImage
    \/ CallVerifyImage
    \/ CallHealthCheck
    \/ FetchSettles

SpecApi == ApiInit /\ [][ApiNext]_vars

(***************************************************************************)
(* Properties of services/api.ts, checked under SpecApi                    *)
(***************************************************************************)

\* The call has ended and was a generateImage call with no file or more than 5.
BadFileCount(frame) ==
    /\ frame.fn = "generateImage"
    /\ (Len(frame.args.files) = 0 \/ Len(frame.args.files) > 5)

\* C5: generateImage called with an empty file list or with more than 5 files
\* throws an Error with the message of the violated limit, and the call hands
\* no request to fetch(): the frame holds no request and the step that makes
\* the call leaves the log of requests as it was.
C5_InvalidFileCountThrows ==
    /\ [](BadFileCount(call) =>
            /\ call.pc = "done"
            /\ call.outcome.kind = "throw"
            /\ call.outcome.error = "Error"
            /\ call.outcome.message =
                 (IF Len(call.args.files) = 0
                  THEN "At least one reference image is required"
                  ELSE "Maximum 5 reference images allowed")
            /\ call.request = Null)
    /\ [][BadFileCount(call') => fetchLog' = fetchLog]_vars

\* A call with more than 5 files has thrown after an earlier call had sent a
\* request.
C5_Witness ==
    /\ BadFileCount(call)
    /\ Len(call.args.files) > 5
    /\ call.outcome.kind = "throw"
    /\ Len(fetchLog) = 1

\* A generateImage call that reached fetch().
SentGenerate == call.fn = "generateImage" /\ call.request # Null

\* The watermark text is given and is not empty after trimming.
WatermarkGiven(watermarkText) ==
    /\ watermarkText.t = "string"
    /\ \E i \in 1..Len(watermarkText.v) : ~IsWhiteSpace(watermarkText.v[i])

\* C6: the request of generateImage holds one entry named 'files' per file, in
\* input order, followed by one entry watermark_text exactly when watermarkText
\* is given and not blank, and that entry is the text as passed (untrimmed).
C6_FormDataFields ==
    SentGenerate =>
        LET body == call.request.body
            files == call.args.files
            text == call.args.watermarkText
        IN  /\ Len(body) = Len(files) + (IF WatermarkGiven(text) THEN 1 ELSE 0)
            /\ \A i \in 1..Len(files) :
                 body[i].name = "files" /\ body[i].value = files[i]
            /\ \A i \in (Len(files) + 1)..Len(body) :
                 body[i].name = "watermark_text" /\ body[i].value = text

\* A request went out with a text that has white space in front, untrimmed,
\* after two files in the order given.
C6_Witness ==
    /\ SentGenerate
    /\ call.args.files = <<"b.png", "a.png">>
    /\ call.args.watermarkText = Str(<<" ", "a">>)
    /\ Len(call.request.body) = 3
    /\ call.request.body[3].value.v = <<" ", "a">>

\* A generateImage call ended on an OK response whose body is a JSON object.
OkGenerate ==
    /\ call.fn = "generateImage"
    /\ call.pc = "done"
    /\ call.request # Null
    /\ call.response.kind = "response"
    /\ call.response.ok
    /\ call.response.body.json
    /\ call.response.body.value.t = "object"

NotOkCall ==
    /\ call.fn \in {"generateImage", "verifyImage"}
    /\ call.pc = "done"
    /\ call.request # Null
    /\ call.response.kind = "response"
    /\ ~call.response.ok

FailedPrefix ==
    IF call.fn = "generateImage" THEN "Generation failed: " ELSE "Verification failed: "

\* The body of the response parsed as a JSON object whose detail is truthy.
HasDetail ==
    /\ call.response.body.json
    /\ call.response.body.value.t = "object"
    /\ call.response.body.value.detail.t \in {"string", "array"}
    /\ (call.response.body.value.detail.t = "string"
        => call.response.body.value.detail.v # "")

\* The detail as new Error() shows it.
DetailText ==
    IF call.response.body.value.detail.t = "string"
    THEN call.response.body.value.detail.v
    ELSE "[object Object]"

\* C8 as stated: on a non-OK response the call throws, and the message is the
\* body's detail when the body is JSON with a non-empty detail, the status
\* text when the body is not JSON, and otherwise '<X> failed: <statusText>'.
C8_AsStated ==
    NotOkCall =>
        /\ call.outcome.kind = "throw"
        /\ call.outcome.message =
             (IF HasDetail THEN DetailText
              ELSE IF ~call.response.body.json THEN call.response.statusText
              ELSE FailedPrefix \o call.response.statusText)

\* C8 (amended): on a non-OK response generateImage and verifyImage throw and
\* return no value. When the body is the JSON value null the error is the
\* TypeError of reading null.detail. Otherwise it is an Error whose message
\* is the body's detail (as a string) when the body is JSON with a truthy
\* detail, the status text when the body is not JSON and the status text is
\* not empty, and '<X> failed: <statusText>' in every other case.
C8_FailureMessage ==
    NotOkCall =>
        /\ call.outcome.kind = "throw"
        /\ IF call.response.body.json /\ call.response.body.value.t = "null"
           THEN call.outcome.error = "TypeError"
           ELSE /\ call.outcome.error = "Error"
                /\ call.outcome.message =
                     (IF HasDetail THEN DetailText
                      ELSE IF ~call.response.body.json /\ call.response.statusText # ""
                      THEN call.response.statusText
                      ELSE FailedPrefix \o call.response.statusText)

\* verifyImage met a non-OK response with no status text and a body that is
\* not JSON, and threw the fallback message.
C8_Witness ==
    /\ NotOkCall
    /\ call.fn = "verifyImage"
    /\ ~call.response.body.json
    /\ call.response.statusText = ""
    /\ call.outcome = Throw("Error", "Verification failed: ")

\* C9: healthCheck never throws: it returns true exactly when the request
\* completed with an OK status, and false when the status is not OK or the
\* request failed.
C9_HealthCheckTotal ==
    (call.fn = "healthCheck" /\ call.pc = "done") =>
        /\ call.outcome.kind = "return"
        /\ call.outcome.value.t = "boolean"
        /\ call.outcome.value.v = (call.response.kind = "response" /\ call.response.ok)

\* healthCheck returned false after the request itself failed.
C9_Witness ==
    /\ call.fn = "healthCheck"
    /\ call.pc = "done"
    /\ call.response = FetchRejected
    /\ call.outcome = Return(Bool(FALSE))

(***************************************************************************)
(* screens/CreationScreen.tsx                                              *)
(***************************************************************************)

\* `const remainingSlots = 5 - sourceImages.length`
MaxSourceImages == 5

\* URL.createObjectURL(file): a URL that designates the file.
createObjectURL(file) == "blob:" \o file

\* Array.prototype.map(file => URL.createObjectURL(file))
ObjectURLs(files) == [i \in 1..Len(files) |-> createObjectURL(files[i])]

\* The texts typed into the metadata box.
SecretTexts == {<<>>, <<" ", "a">>}

\* What fetch() settles with while the screen waits for generateImage.
ScreenFetchResults ==
    {FetchRejected}
    \cup {Response(ok, "", b) :
            ok \in BOOLEAN,
            b \in {[json |-> FALSE],
                   [json |-> TRUE,
                    value |-> Obj(Str("bad input"), Str("iVBORw0KGgo="),
                                  Undefined, Bool(TRUE))]}}

\* A variant of handleFiles that does not cut the new files to the free slots.
handleFiles_noSlice(c, files) ==
    IF MaxSourceImages - Len(c.sourceImages) <= 0 THEN c
    ELSE [c EXCEPT
            !.sourceImages = c.sourceImages \o files,
            !.previewUrls = c.previewUrls \o ObjectURLs(files),
            !.activeIndex = IF Len(c.sourceImages) = 0 THEN 0 ELSE c.activeIndex,
            !.isComplete = FALSE]

\* handleFiles(files), run on the state c of the last render.
handleFiles(c, files) ==
    LET remainingSlots == MaxSourceImages - Len(c.sourceImages)
        newFiles == slice(files, remainingSlots)
    IN  IF remainingSlots <= 0 THEN c
        ELSE [c EXCEPT
                !.sourceImages = c.sourceImages \o newFiles,
                !.previewUrls = c.previewUrls \o ObjectURLs(newFiles),
                !.activeIndex = IF Len(c.sourceImages) = 0 THEN 0 ELSE c.activeIndex,
                !.isComplete = FALSE]

\* removeImage(index, e)
removeImage(c, index) ==
    LET newImages == RemoveAt(c.sourceImages, index)
        newUrls == RemoveAt(c.previewUrls, index)
    IN  [c EXCEPT
            !.sourceImages = newImages,
            !.previewUrls = newUrls,
            !.activeIndex =
                IF c.activeIndex >= Len(newImages)
                THEN (IF Len(newImages) - 1 > 0 THEN Len(newImages) - 1 ELSE 0)
                ELSE c.activeIndex]

\* handleEmbed up to `await generateImage(...)`.
handleEmbedEnter(c) ==
    [c EXCEPT !.isProcessing = TRUE, !.isComplete = FALSE, !.error = Null]

\* A variant of handleEmbedSettled that stages a fake result: the screen
\* completes whatever generateImage did.
handleEmbedSettled_simulated(c, outcome) ==
    [c EXCEPT !.isComplete = TRUE, !.isProcessing = FALSE]

\* handleEmbed from the point generateImage has settled: the rest of the try
\* block, or the catch block, and then the finally block.
handleEmbedSettled(c, outcome) ==
    IF outcome.kind = "return"
    THEN [c EXCEPT
            !.generatedImageUrl = outcome.value,
            !.isComplete = TRUE,
            !.isProcessing = FALSE]
    ELSE [c EXCEPT
            !.error = Str(outcome.message),
            !.isProcessing = FALSE]

\* The src of the image in the viewport (lines 380, 412); null when the
\* viewport shows "Studio Empty", undefined when the index is out of range.
DisplayedImage(c) ==
    IF Len(c.previewUrls) = 0 THEN Null
    ELSE IF c.isComplete /\ Truthy(c.generatedImageUrl) THEN c.generatedImageUrl
    ELSE IF c.activeIndex + 1 <= Len(c.previewUrls)
    THEN Str(c.previewUrls[c.activeIndex + 1])
    ELSE Undefined

\* The frame of a call whose caller has taken its outcome: the locals are
\* gone, what fetch settled with and how the call ended are kept.
Consumed(frame) ==
    [frame EXCEPT !.pc = "idle", !.args = Null, !.request = Null]

CreationSpecInit ==
    /\ call = Idle
    /\ fetchLog = <<>>
    /\ creation = CreationInit
    /\ detection = <<>>
    /\ script = Null

\* Files arrive from the file picker (onChange) or from a drop (handleDrop).
CreationHandleFiles ==
    \E files \in FileLists :
        /\ creation' = handleFiles(creation, files)
        /\ UNCHANGED <<call, fetchLog, detection, script>>

\* A click on the remove button of thumbnail `index`.
CreationRemoveImage ==
    \E index \in 0..(Len(creation.sourceImages) - 1) :
        /\ creation' = removeImage(creation, index)
        /\ UNCHANGED <<call, fetchLog, detection, script>>

\* A click on thumbnail idx.
CreationSetActiveIndex ==
    \E idx \in 0..(Len(creation.sourceImages) - 1) :
        /\ creation' = [creation EXCEPT !.activeIndex = idx]
        /\ UNCHANGED <<call, fetchLog, detection, script>>

\* Typing into the metadata box.
CreationSetSecretData ==
    \E text \in SecretTexts :
        /\ creation' = [creation EXCEPT !.secretData = text]
        /\ UNCHANGED <<call, fetchLog, detection, script>>

\* A click on RENDER PORTRAIT: rendered while !isComplete, disabled while
\* there is no source image or isProcessing. generateImage runs to its first
\* await; had it thrown before, the catch and finally blocks run at once.
CreationHandleEmbed ==
    /\ ~creation.isComplete
    /\ Len(creation.sourceImages) # 0
    /\ ~creation.isProcessing
    /\ Len(fetchLog) < MaxFetches
    /\ LET frame == generateImageEnter(creation.sourceImages, Str(creation.secretData))
       IN  /\ fetchLog' = fetchLog \o Fetched(frame)
           /\ IF frame.pc = "awaitFetch"
              THEN /\ call' = frame
                   /\ creation' = handleEmbedEnter(creation)
              ELSE /\ call' = Consumed(frame)
                   /\ creation' = handleEmbedSettled(handleEmbedEnter(creation),
                                                     frame.outcome)
    /\ UNCHANGED <<detection, script>>

\* fetch() settles: generateImage runs to its end and handleEmbed resumes.
CreationFetchSettles ==
    \E result \in ScreenFetchResults :
        /\ call.pc = "awaitFetch"
        /\ call' = Consumed(Settle(call, result))
        /\ creation' = handleEmbedSettled(creation, call'.outcome)
        /\ UNCHANGED <<fetchLog, detection, script>>

\* A click on the round button beside DOWNLOAD ASSET (line 351), rendered
\* while isComplete.
CreationDismiss ==
    /\ creation.isComplete
    /\ creation' = [creation EXCEPT
                        !.isProcessing = FALSE, !.isComplete = FALSE,
                        !.generatedImageUrl = Null, !.error = Null]
    /\ UNCHANGED <<call, fetchLog, detection, script>>

CreationNext ==
    \/ CreationHandleFiles
    \/ CreationRemoveImage
    \/ CreationSetActiveIndex
    \/ CreationSetSecretData
    \/ CreationHandleEmbed
    \/ CreationFetchSettles
    \/ CreationDismiss

SpecCreation == CreationSpecInit /\ [][CreationNext]_vars

(***************************************************************************)
(* Properties of CreationScreen.tsx, checked under SpecCreation            *)
(***************************************************************************)

\* At most one generateImage call is in flight, and the screen is in its
\* processing state for as long as it is.
CreationOneInFlight ==
    call.pc = "awaitFetch" =>
        creation.isProcessing /\ ~creation.isComplete /\ call.fn = "generateImage"

\* The screen as handleEmbed leaves it when fetch settles with `result`.
AfterResult(result) == handleEmbedSettled(creation, Settle(call, result).outcome)

\* C1 as stated: once handleEmbed has been started, whether the screen
\* reaches isComplete and which image it then displays are the same whatever
\* the backend answers.
C1_AsStated ==
    call.pc = "awaitFetch" =>
        \A r1, r2 \in ScreenFetchResults :
            /\ AfterResult(r1).isComplete = AfterResult(r2).isComplete
            /\ DisplayedImage(AfterResult(r1)) = DisplayedImage(AfterResult(r2))

\* fetch settled with an OK response whose body is a JSON object.
OkObject(r) ==
    r.kind = "response" /\ r.ok /\ r.body.json /\ r.body.value.t = "object"

\* C1 (amended): handleEmbed started with at least one source image sends one
\* POST /api/generate-image request, and the answer decides the outcome:
\* isComplete becomes true exactly when the answer is an OK response with a
\* JSON object as its body, and the viewport then shows the data URL made of
\* that response's image field (or nothing, when every source image has been
\* removed meanwhile); on any other answer isComplete stays false, error is
\* set and the generated image is left as it was.
C1_BackendDecides ==
    /\ [][(~creation.isProcessing /\ creation'.isProcessing) =>
            /\ Len(creation.sourceImages) >= 1
            /\ fetchLog' = Append(fetchLog,
                    [method |-> "POST",
                     url |-> "http://localhost:8000/api/generate-image"])]_vars
    /\ [][(call.pc = "awaitFetch" /\ call'.pc # "awaitFetch") =>
            LET r == call'.response
            IN  /\ ~creation'.isProcessing
                /\ creation'.isComplete <=> OkObject(r)
                /\ OkObject(r) =>
                     DisplayedImage(creation') =
                        (IF Len(creation'.sourceImages) = 0 THEN Null
                         ELSE Str("data:image/png;base64," \o r.body.value.image.v))
                /\ ~OkObject(r) =>
                     /\ creation'.error # Null
                     /\ creation'.generatedImageUrl = creation.generatedImageUrl]_vars

\* The screen is complete and shows the image an OK response carried.
C1_Witness ==
    /\ creation.isComplete
    /\ OkObject(call.response)
    /\ Len(fetchLog) = 1
    /\ DisplayedImage(creation) = Str("data:image/png;base64,iVBORw0KGgo=")

\* C4: after any sequence of handleFiles and removeImage actions the source
\* library holds at most 5 images (and one preview URL per image).
C4_AtMostFiveImages ==
    /\ Len(creation.sourceImages) <= 5
    /\ Len(creation.previewUrls) = Len(creation.sourceImages)

\* The library is full, and its content shows that it was filled by more
\* than one handleFiles, the last one cut to the free slots.
C4_Witness ==
    /\ Len(creation.sourceImages) = 5
    /\ creation.sourceImages[1] = creation.sourceImages[2]
    /\ creation.sourceImages[4] = creation.sourceImages[5]

(***************************************************************************)
(* screens/DetectionScreen.tsx                                             *)
(*                                                                         *)
(* Two runs of the screen are followed side by side: they take the same    *)
(* actions, and differ only in the files they are given.                   *)
(***************************************************************************)

Runs == {1, 2}

\* The files given to the Verify screen.
ScanFiles == {"a.png", "b.png", "c.png", "d.png"}

\* A File object.
File(name) == [t |-> "file", name |-> name]

\* A string with line breaks, as the sequence of its pieces: the argument of
\* setMetadata in handleScan.
ScanMetadata ==
    <<"PROVENANCE_KEY_VERIFIED: 0x92f...a12b", "\n",
      "TIMESTAMP: 2024-12-06T19:42:00Z", "\n",
      "ORIGIN: NEXUS_TERMINAL_ALPHA", "\n",
      "INTEGRITY: 100%">>

\* String.prototype.split('\n') on such a string: the lines between the breaks.
RECURSIVE SplitLines(_, _)
SplitLines(pieces, line) ==
    IF pieces = <<>> THEN <<line>>
    ELSE IF Head(pieces) = "\n" THEN <<line>> \o SplitLines(Tail(pieces), "")
    ELSE SplitLines(Tail(pieces), line \o Head(pieces))

\* The state after useState's initial values.
DetectionInit ==
    [image |-> Null, previewUrl |-> Null, isScanning |-> FALSE,
     scanComplete |-> FALSE, metadata |-> Null, verificationStep |-> 0,
     timers |-> <<>>]

\* processFile(file)
processFile(d, file) ==
    [d EXCEPT
        !.image = File(file),
        !.previewUrl = Str(createObjectURL(file)),
        !.scanComplete = FALSE,
        !.metadata = Null,
        !.verificationStep = 0]

\* processFile(undefined), from the picker's onChange with an empty file
\* list: setImage(undefined), then URL.createObjectURL(undefined) throws.
processNoFile(d) == [d EXCEPT !.image = Undefined]

\* handleScan(): the three setTimeout calls queue their callbacks in the
\* order of their delays (1500, 3000, 4500 ms).
handleScan(d) ==
    IF ~Truthy(d.image) THEN d
    ELSE [d EXCEPT
            !.isScanning = TRUE,
            !.verificationStep = 1,
            !.timers = d.timers \o <<"step2", "step3", "finish">>]

\* A variant of finishScan that reports the name of the scanned file.
finishScan_fromFile(d) ==
    [d EXCEPT
        !.isScanning = FALSE,
        !.scanComplete = TRUE,
        !.metadata = <<"FILE: " \o d.image.name, "\n">> \o ScanMetadata]

\* The callback of the third timer of handleScan.
finishScan(d) ==
    [d EXCEPT
        !.isScanning = FALSE,
        !.scanComplete = TRUE,
        !.metadata = ScanMetadata]

\* The earliest pending timer expires and its callback runs.
timerExpires(d) ==
    LET rest == [d EXCEPT !.timers = Tail(d.timers)]
    IN  CASE Head(d.timers) = "step2" -> [rest EXCEPT !.verificationStep = 2]
          [] Head(d.timers) = "step3" -> [rest EXCEPT !.verificationStep = 3]
          [] Head(d.timers) = "finish" -> finishScan(rest)

\* reset()
reset(d) ==
    [d EXCEPT
        !.image = Null,
        !.previewUrl = Null,
        !.scanComplete = FALSE,
        !.metadata = Null,
        !.verificationStep = 0]

\* The heading of the results panel (lines 234-256).
Verdict(d) ==
    IF ~d.scanComplete THEN "Awaiting Analysis Results"
    ELSE "VERIFICATION SUCCESSFUL"

\* The lines of the results panel: `metadata?.split('\n')`.
MetadataLines(d) ==
    IF d.metadata = Null THEN <<>> ELSE SplitLines(d.metadata, "")

DetectionSpecInit ==
    /\ call = Idle
    /\ fetchLog = <<>>
    /\ creation = CreationInit
    /\ detection = [r \in Runs |-> DetectionInit]
    /\ script = Null

\* A file is dropped on the upload area (handleDrop), or chosen in the
\* picker (onChange): each run is given a file of its own.
DetectionProcessFile ==
    \E file \in [Runs -> ScanFiles] :
        /\ detection' = [r \in Runs |-> processFile(detection[r], file[r])]
        /\ UNCHANGED <<call, fetchLog, creation, script>>

\* The picker reports an empty selection; it opens only while !isScanning.
DetectionProcessNoFile ==
    /\ \A r \in Runs : ~detection[r].isScanning
    /\ detection' = [r \in Runs |-> processNoFile(detection[r])]
    /\ UNCHANGED <<call, fetchLog, creation, script>>

\* A variant of DetectionHandleScan that sends the image to the backend.
DetectionHandleScan_verifyImage ==
    /\ \A r \in Runs :
         /\ ~detection[r].scanComplete
         /\ Truthy(detection[r].image)
         /\ ~detection[r].isScanning
    /\ detection' = [r \in Runs |-> handleScan(detection[r])]
    /\ call' = verifyImageEnter(detection[1].image.name)
    /\ fetchLog' = fetchLog \o Fetched(call')
    /\ UNCHANGED <<creation, script>>

\* A click on INITIATE SCAN: rendered while !scanComplete, disabled while
\* !image or isScanning.
DetectionHandleScan ==
    /\ \A r \in Runs :
         /\ ~detection[r].scanComplete
         /\ Truthy(detection[r].image)
         /\ ~detection[r].isScanning
    /\ detection' = [r \in Runs |-> handleScan(detection[r])]
    /\ UNCHANGED <<call, fetchLog, creation, script>>

\* The next timer of handleScan expires.
DetectionTimerExpires ==
    /\ \A r \in Runs : detection[r].timers # <<>>
    /\ detection' = [r \in Runs |-> timerExpires(detection[r])]
    /\ UNCHANGED <<call, fetchLog, creation, script>>

\* A click on ANALYZE ANOTHER ASSET, rendered while scanComplete.
DetectionReset ==
    /\ \A r \in Runs : detection[r].scanComplete
    /\ detection' = [r \in Runs |-> reset(detection[r])]
    /\ UNCHANGED <<call, fetchLog, creation, script>>

DetectionNext ==
    \/ DetectionProcessFile
    \/ DetectionProcessNoFile
    \/ DetectionHandleScan
    \/ DetectionTimerExpires
    \/ DetectionReset

SpecDetection == DetectionSpecInit /\ [][DetectionNext]_vars

(***************************************************************************)
(* Properties of DetectionScreen.tsx, checked under SpecDetection          *)
(***************************************************************************)

\* Timers are pending exactly while a scan is running, so no two scans'
\* timers are ever interleaved.
DetectionTimersOfOneScan ==
    \A r \in Runs :
        /\ detection[r].isScanning <=> detection[r].timers # <<>>
        /\ detection[r].timers \in
             {<<>>, <<"finish">>, <<"step3", "finish">>, <<"step2", "step3", "finish">>}

\* What a run shows of its verification: everything but the file itself and
\* the URL made of it.
Observed(d) ==
    [hasImage |-> Truthy(d.image), isScanning |-> d.isScanning,
     scanComplete |-> d.scanComplete, metadata |-> d.metadata,
     verificationStep |-> d.verificationStep, timers |-> d.timers,
     verdict |-> Verdict(d), lines |-> MetadataLines(d)]

\* C2: two runs of the Verify screen that take the same actions on different
\* images are in the same state of verification after every action, and a
\* completed scan has set metadata to the same fixed string of four lines and
\* shows the success verdict.
C2_ResultIndependentOfFile ==
    /\ Observed(detection[1]) = Observed(detection[2])
    /\ \A r \in Runs :
         detection[r].scanComplete =>
            /\ detection[r].metadata =
                 <<"PROVENANCE_KEY_VERIFIED: 0x92f...a12b", "\n",
                   "TIMESTAMP: 2024-12-06T19:42:00Z", "\n",
                   "ORIGIN: NEXUS_TERMINAL_ALPHA", "\n",
                   "INTEGRITY: 100%">>
            /\ Len(MetadataLines(detection[r])) = 4
            /\ Verdict(detection[r]) = "VERIFICATION SUCCESSFUL"

\* Both runs completed a scan, each of a different file.
C2_Witness ==
    /\ detection[1].scanComplete
    /\ detection[2].scanComplete
    /\ Truthy(detection[1].image)
    /\ Truthy(detection[2].image)
    /\ detection[1].image # detection[2].image

\* C3: no action of the Verify screen hands a request to fetch() or enters
\* verifyImage, and verificationStep moves to 2 or 3 and scanComplete becomes
\* true only in a step in which a timer of handleScan expires.
C3_NoNetworkOnVerify ==
    /\ [](fetchLog = <<>> /\ call = Idle)
    /\ [][\A r \in Runs :
            (\/ (detection'[r].verificationStep # detection[r].verificationStep
                 /\ detection'[r].verificationStep \in {2, 3})
             \/ (detection'[r].scanComplete /\ ~detection[r].scanComplete))
            => (detection[r].timers # <<>>
                /\ detection'[r].timers = Tail(detection[r].timers))]_vars

\* A scan is in its last stage, driven there by two timers, and nothing has
\* been sent.
C3_Witness ==
    /\ detection[1].isScanning
    /\ detection[1].verificationStep = 3
    /\ detection[1].timers = <<"finish">>
    /\ fetchLog = <<>>

(***************************************************************************)
(* init-frontend.sh                                                        *)
(***************************************************************************)

FRONTEND_DIR == "frontend"

\* The most arguments a run is started with.
MaxArgs == 2

\* The words a run may be given as arguments.
ArgWords == {"--dry-run", "--force", "--verbose"}

ArgLists == UNION {[1..n -> ArgWords] : n \in 0..MaxArgs}

\* The loop `for arg in "$@"` with its case statement: the values of DRY_RUN
\* and FORCE after the arguments from position i on.
RECURSIVE ParseArgs(_, _, _)
ParseArgs(args, i, flags) ==
    IF i > Len(args) THEN flags
    ELSE ParseArgs(args, i + 1,
            CASE args[i] = "--dry-run" -> [flags EXCEPT !.DRY_RUN = TRUE]
              [] args[i] = "--force" -> [flags EXCEPT !.FORCE = TRUE]
              [] OTHER -> flags)

\* What is at ./frontend: nothing, the directory that was there before the
\* run ("old"), a regular file, or the project the run creates ("new").
FrontendEntries == {"none", "old", "file"}

\* What is at ./frontend_backup_<timestamp> when mv runs: nothing, or a
\* directory or a file that already has this name; after mv also the old
\* frontend directory itself ("old"), or a directory that now holds it
\* ("dir/old").
BackupEntries == {"none", "dir", "file"}

\* The lines typed at the prompt, as sequences of characters; EOF is the end
\* of input without a line.
EOF == <<"EOF">>

Answers ==
    {<<"1">>, <<"2">>, <<>>, <<" ", "1">>, <<"1", " ">>, <<"1", "1">>, <<"y">>,
     <<"\t", "1">>, <<"\\", "1">>, EOF}

\* The white space of the default IFS that a line can hold.
IFSWhiteSpace == {" ", "\t"}

\* read without -r: a backslash is removed and the character after it is
\* taken literally; a backslash that ends the line is dropped.
RECURSIVE Unescape(_, _)
Unescape(line, i) ==
    IF i > Len(line) THEN <<>>
    ELSE IF line[i] = "\\"
         THEN (IF i < Len(line)
               THEN <<[c |-> line[i + 1], escaped |-> TRUE]>> \o Unescape(line, i + 2)
               ELSE <<>>)
         ELSE <<[c |-> line[i], escaped |-> FALSE]>> \o Unescape(line, i + 1)

IsSeparator(ch) == ~ch.escaped /\ ch.c \in IFSWhiteSpace

\* The characters left when the IFS white space that is not escaped is
\* removed from both ends.
RECURSIVE StripIFS(_)
StripIFS(chars) ==
    IF chars = <<>> THEN <<>>
    ELSE IF IsSeparator(chars[1]) THEN StripIFS(Tail(chars))
    ELSE IF IsSeparator(chars[Len(chars)])
         THEN StripIFS(SubSeq(chars, 1, Len(chars) - 1))
    ELSE chars

\* `read choice`: the value the line gives the one variable.
ReadWord(line) ==
    LET chars == StripIFS(Unescape(line, 1))
    IN  [i \in 1..Len(chars) |-> chars[i].c]

\* The backup command of lines 74 and 86.
MvCommand == "mv frontend frontend_backup_<timestamp>"

\* The commands of steps 1 to 11, in order (lines 97-260).
Steps ==
    <<"npm create vite@latest frontend -- --template react-ts",
      "cd frontend",
      "npm install",
      "npm install tailwindcss @tailwindcss/vite",
      "npm install -D @types/node",
      "npm install @radix-ui/react-dialog ...",
      "cat > src/index.css",
      "cat > tsconfig.json",
      "cat > tsconfig.app.json",
      "cat > vite.config.ts",
      "npx shadcn@latest init -d",
      "npx -y shadcn@latest add --all --overwrite",
      "cat > src/App.tsx">>

\* A run that has not executed anything yet.
ScriptStart(args, frontend, backup) ==
    [pc |-> "parse", args |-> args, DRY_RUN |-> FALSE, FORCE |-> FALSE,
     frontend |-> frontend, frontend0 |-> frontend,
     backup |-> backup, backup0 |-> backup,
     prompted |-> FALSE, input |-> <<>>, choice |-> <<>>,
     commands |-> <<>>, step |-> 0, cwd |-> ".",
     status |-> -1]

\* `exit n`, or the exit `set -e` makes after a failed command.
Exit(s, n) == [s EXCEPT !.pc = "exited", !.status = n]

\* A variant of parseArguments that looks at the first argument only.
parseArguments_firstOnly(s) ==
    LET flags == ParseArgs(slice(s.args, 1), 1, [DRY_RUN |-> FALSE, FORCE |-> FALSE])
    IN  [s EXCEPT !.DRY_RUN = flags.DRY_RUN, !.FORCE = flags.FORCE, !.pc = "dryrun"]

\* Lines 13-27: the defaults and the argument loop.
parseArguments(s) ==
    LET flags == ParseArgs(s.args, 1, [DRY_RUN |-> FALSE, FORCE |-> FALSE])
    IN  [s EXCEPT !.DRY_RUN = flags.DRY_RUN, !.FORCE = flags.FORCE, !.pc = "dryrun"]

\* Lines 30-55: in dry-run mode the script prints its plan (and a warning
\* when ./frontend is a directory) and exits 0.
dryRunBranch(s) ==
    IF s.DRY_RUN THEN Exit(s, 0) ELSE [s EXCEPT !.pc = "check"]

\* A variant of checkExisting that prompts whether or not --force is given.
checkExisting_alwaysPrompt(s) ==
    IF s.frontend = "old"
    THEN [s EXCEPT !.pc = "read", !.prompted = TRUE]
    ELSE [s EXCEPT !.pc = "steps", !.step = 1]

\* Lines 58-62 and 82-84: `[ -d frontend ]`, then the prompt or, with
\* --force, straight to the backup.
checkExisting(s) ==
    IF s.frontend = "old"
    THEN (IF ~s.FORCE THEN [s EXCEPT !.pc = "read", !.prompted = TRUE]
          ELSE [s EXCEPT !.pc = "mv"])
    ELSE [s EXCEPT !.pc = "steps", !.step = 1]

\* A variant of readChoice that takes an empty answer as the choice 1.
readChoice_defaultYes(s, line) ==
    LET got == [s EXCEPT !.input = <<line>>,
                         !.choice = IF line = EOF THEN <<>> ELSE ReadWord(line)]
    IN  IF line = EOF THEN Exit(got, 1)
        ELSE IF got.choice \in {<<"1">>, <<>>} THEN [got EXCEPT !.pc = "mv"]
        ELSE Exit(got, 1)

\* Lines 67-81: read, then the case statement. `input` is the line typed
\* and `choice` the variable read sets. read fails at the end of input, and
\* set -e ends the script with read's status 1.
readChoice(s, line) ==
    LET got == [s EXCEPT !.input = <<line>>,
                         !.choice = IF line = EOF THEN <<>> ELSE ReadWord(line)]
    IN  IF line = EOF THEN Exit(got, 1)
        ELSE IF got.choice = <<"1">> THEN [got EXCEPT !.pc = "mv"]
        ELSE Exit(got, 1)

\* A variant of backupExisting that goes on without moving the folder.
backupExisting_noMove(s, ok) ==
    LET ran == [s EXCEPT !.commands = Append(s.commands, MvCommand)]
    IN  IF ~ok \/ s.backup = "file" THEN Exit(ran, 1)
        ELSE [ran EXCEPT !.pc = "steps", !.step = 1]

\* Lines 71-75 and 84-87: mv "$FRONTEND_DIR" "$BACKUP_DIR". mv renames the
\* directory when nothing has the backup's name, moves it into a directory
\* of that name, and fails on a file of that name; `ok` is whether the
\* renaming itself succeeds.
backupExisting(s, ok) ==
    LET ran == [s EXCEPT !.commands = Append(s.commands, MvCommand)]
    IN  IF ~ok \/ s.backup = "file" THEN Exit(ran, 1)
        ELSE [ran EXCEPT
                !.frontend = "none",
                !.backup = IF s.backup = "none" THEN "old" ELSE "dir/old",
                !.pc = "steps",
                !.step = 1]

\* Lines 91-260: the next command of steps 1 to 11 runs; when it fails,
\* set -e ends the script with a status that is not 0. npm create makes
\* ./frontend, and the script exits 0 after the last command.
runStep(s, ok) ==
    LET ran == [s EXCEPT !.commands = Append(s.commands, Steps[s.step])]
        made == IF s.step = 1 /\ s.frontend = "none"
                THEN [ran EXCEPT !.frontend = "new"] ELSE ran
        moved == IF s.step = 2 THEN [made EXCEPT !.cwd = FRONTEND_DIR] ELSE made
    IN  IF ~ok THEN Exit(ran, 1)
        ELSE IF s.step = Len(Steps) THEN Exit(moved, 0)
        ELSE [moved EXCEPT !.step = s.step + 1]

InitSpecInit ==
    /\ call = Idle
    /\ fetchLog = <<>>
    /\ creation = CreationInit
    /\ detection = <<>>
    /\ script \in {ScriptStart(args, frontend, backup) :
                     args \in ArgLists, frontend \in FrontendEntries,
                     backup \in BackupEntries}

ScriptParseArguments ==
    /\ script.pc = "parse"
    /\ script' = parseArguments(script)
    /\ UNCHANGED <<call, fetchLog, creation, detection>>

ScriptDryRunBranch ==
    /\ script.pc = "dryrun"
    /\ script' = dryRunBranch(script)
    /\ UNCHANGED <<call, fetchLog, creation, detection>>

ScriptCheckExisting ==
    /\ script.pc = "check"
    /\ script' = checkExisting(script)
    /\ UNCHANGED <<call, fetchLog, creation, detection>>

ScriptReadChoice ==
    \E line \in Answers :
        /\ script.pc = "read"
        /\ script' = readChoice(script, line)
        /\ UNCHANGED <<call, fetchLog, creation, detection>>

ScriptBackupExisting ==
    \E ok \in BOOLEAN :
        /\ script.pc = "mv"
        /\ script' = backupExisting(script, ok)
        /\ UNCHANGED <<call, fetchLog, creation, detection>>

\* npm create fails when ./frontend is a regular file.
ScriptRunStep ==
    \E ok \in BOOLEAN :
        /\ script.pc = "steps"
        /\ (script.step = 1 /\ script.frontend = "file") => ~ok
        /\ script' = runStep(script, ok)
        /\ UNCHANGED <<call, fetchLog, creation, detection>>

InitNext ==
    \/ ScriptParseArguments
    \/ ScriptDryRunBranch
    \/ ScriptCheckExisting
    \/ ScriptReadChoice
    \/ ScriptBackupExisting
    \/ ScriptRunStep

SpecInit == InitSpecInit /\ [][InitNext]_vars

(***************************************************************************)
(* Properties of init-frontend.sh, checked under SpecInit                  *)
(***************************************************************************)

\* --dry-run is among the arguments of the run.
DryRunGiven == \E i \in 1..Len(script.args) : script.args[i] = "--dry-run"

\* C10: with --dry-run among the arguments the script changes nothing: it
\* runs no command (no mv, npm, npx, no file written), leaves ./frontend and
\* the backup path as they were, never prompts, and its only exit is the
\* dry-run branch's exit 0, whether or not ./frontend exists and --force is
\* given.
C10_DryRunChangesNothing ==
    DryRunGiven =>
        /\ script.commands = <<>>
        /\ script.frontend = script.frontend0
        /\ script.backup = script.backup0
        /\ script.cwd = "."
        /\ ~script.prompted
        /\ script.pc \in {"parse", "dryrun", "exited"}
        /\ script.pc = "exited" => script.status = 0

\* A dry run given --force first, started where ./frontend exists, has
\* exited.
C10_Witness ==
    /\ script.args = <<"--force", "--dry-run">>
    /\ script.frontend0 = "old"
    /\ script.pc = "exited"
    /\ script.status = 0

\* --force is among the arguments of the run.
ForceGiven == \E i \in 1..Len(script.args) : script.args[i] = "--force"

\* The run is not a dry run and started where ./frontend is a directory.
ExistingFolderRun == ~DryRunGiven /\ script.frontend0 = "old"

\* The run has executed a command of steps 1 to 11.
StepsBegun ==
    \E i \in 1..Len(script.commands) : script.commands[i] # MvCommand

\* The run is past the check of the existing folder.
PastCheck == script.pc \in {"steps", "exited"}

\* C11 as the specification states it: a run with --force where ./frontend
\* exists never prompts and, once past the check, has renamed the folder
\* to frontend_backup_<timestamp> and gone on to the initialization steps.
C11_AsStated ==
    (ForceGiven /\ ExistingFolderRun) =>
        /\ ~script.prompted
        /\ PastCheck =>
              /\ script.frontend # "old"
              /\ script.backup = "old"
              /\ script.pc = "steps" \/ StepsBegun

\* C11: a run with --force (and no --dry-run) where ./frontend exists never
\* prompts and runs mv as its first command. When mv succeeds the folder
\* has left ./frontend - it is frontend_backup_<timestamp>, or lies inside
\* a directory that already had that name - and the script is in the
\* initialization steps, none of which runs before. When mv fails the
\* script exits with status 1, the folder still in place and no
\* initialization step run.
C11_ForceBacksUpFirst ==
    (ForceGiven /\ ExistingFolderRun) =>
        /\ ~script.prompted
        /\ script.pc # "read"
        /\ script.commands # <<>> => script.commands[1] = MvCommand
        /\ (script.pc = "steps" \/ StepsBegun) =>
              /\ script.frontend # "old"
              /\ script.backup0 = "none" => script.backup = "old"
              /\ script.backup0 = "dir" => script.backup = "dir/old"
              /\ script.backup0 # "file"
        /\ script.backup # script.backup0 =>
              script.pc = "steps" \/ (script.pc = "exited" /\ StepsBegun)
        /\ (script.pc = "exited" /\ ~StepsBegun) =>
              /\ script.status = 1
              /\ script.commands = <<MvCommand>>
              /\ script.frontend = "old"
              /\ script.backup = script.backup0

\* A run with --force has renamed the existing folder without prompting
\* and has run the first initialization steps.
C11_Witness ==
    /\ script.args = <<"--force">>
    /\ script.frontend0 = "old"
    /\ script.backup = "old"
    /\ ~script.prompted
    /\ script.frontend = "new"
    /\ Len(script.commands) >= 3

\* The run has gone on from the prompt: it is at the backup or beyond it.
Continued == script.pc \in {"mv", "steps"} \/ script.commands # <<>>

\* The run has ended at the prompt, with nothing renamed and nothing run.
Aborted ==
    /\ script.pc = "exited"
    /\ script.status = 1
    /\ script.commands = <<>>
    /\ script.frontend = "old"
    /\ script.backup = script.backup0

\* C12 as the specification states it: a run without --force where
\* ./frontend exists continues only when the line typed at the prompt is
\* exactly 1, the initialization steps coming after the backup; after any
\* other line it has exited with status 1, nothing renamed and no step run.
C12_AsStated ==
    (~ForceGiven /\ ExistingFolderRun) =>
        /\ Continued => script.input = << <<"1">> >>
        /\ (script.pc = "steps" \/ StepsBegun) => script.backup # script.backup0
        /\ (script.input # <<>> /\ script.input # << <<"1">> >>) => Aborted

\* C12: a run without --force where ./frontend exists prompts, and
\* continues only when the value read gives the variable choice is 1 - the
\* line typed without the blanks around it and without its backslashes -
\* the initialization steps coming after the backup; when choice is
\* anything else, or the input has ended, it has exited with status 1,
\* nothing renamed and no step run.
C12_ContinuesOnlyOnChoice1 ==
    (~ForceGiven /\ ExistingFolderRun) =>
        /\ (script.pc \in {"read", "mv", "steps"} \/ script.input # <<>>) =>
              script.prompted
        /\ Continued =>
              /\ script.input # <<>>
              /\ script.input # <<EOF>>
              /\ script.choice = <<"1">>
        /\ script.commands # <<>> => script.commands[1] = MvCommand
        /\ (script.pc = "steps" \/ StepsBegun) =>
              /\ script.frontend # "old"
              /\ script.backup # script.backup0
        /\ (script.input # <<>> /\ (script.input = <<EOF>> \/ script.choice # <<"1">>)) =>
              Aborted
        /\ script.input \in {<< <<" ", "1">> >>, << <<"1", " ">> >>,
                             << <<"\t", "1">> >>, << <<"\\", "1">> >>} =>
              script.pc # "exited" \/ script.commands # <<>>

\* A run without --force, answered with a blank and 1, has backed the
\* folder up and begun the initialization steps.
C12_Witness ==
    /\ ~ForceGiven
    /\ ExistingFolderRun
    /\ script.input = << <<" ", "1">> >>
    /\ script.backup = "old"
    /\ StepsBegun

\* Step 1 (npm create vite) is the command the run executes next.
AtStep1 == script.pc = "steps" /\ script.step = 1

\* Where the directory that was at ./frontend when the run began is now:
\* still in place with the backup path untouched, or at the backup path
\* (as the backup itself, or inside a directory that had its name).
OldFolderKept ==
    \/ script.frontend = "old" /\ script.backup = script.backup0
    \/ /\ script.frontend # "old"
       /\ script.backup0 # "file"
       /\ script.backup = IF script.backup0 = "none" THEN "old" ELSE "dir/old"

\* C13 as the specification states it: in a run that is not a dry run
\* step 1 is executed only where nothing is at ./frontend, a folder that
\* was there having been renamed to the backup directory and kept.
C13_AsStated ==
    ~DryRunGiven =>
        /\ AtStep1 => script.frontend = "none"
        /\ (script.frontend0 = "old" /\ (AtStep1 \/ StepsBegun)) =>
              script.backup = "old"
        /\ script.frontend0 = "old" =>
              script.frontend = "old" \/ script.backup = "old"

\* C13: in a run that is not a dry run step 1 is executed only where
\* ./frontend is not a directory: nothing is there, or a regular file, on
\* which step 1 fails and the script ends. A directory that was at
\* ./frontend has first been moved to the backup path - renamed to it, or
\* moved into a directory that had its name - and is kept there; a file
\* at ./frontend is left as it is; and the files of the later steps are
\* written inside the project step 1 made.
C13_Step1OnlyWithoutFolder ==
    ~DryRunGiven =>
        /\ AtStep1 => script.frontend \in {"none", "file"}
        /\ StepsBegun => script.frontend # "old"
        /\ script.frontend0 = "old" =>
              /\ OldFolderKept
              /\ (AtStep1 \/ StepsBegun) => script.commands[1] = MvCommand
        /\ script.frontend0 = "file" =>
              /\ script.frontend = "file"
              /\ script.backup = script.backup0
              /\ script.step <= 1
              /\ StepsBegun => (script.pc = "exited" /\ script.status = 1)
        /\ script.frontend0 = "none" => script.backup = script.backup0
        /\ (script.pc = "steps" /\ script.step >= 3) =>
              (script.cwd = FRONTEND_DIR /\ script.frontend = "new")

\* A run that found ./frontend, was answered 1, moved the folder to the
\* backup path and ran step 1 to the last step.
C13_Witness ==
    /\ ~DryRunGiven
    /\ script.frontend0 = "old"
    /\ script.backup = "old"
    /\ script.frontend = "new"
    /\ Len(script.commands) = Len(Steps) + 1
    /\ script.pc = "exited"
    /\ script.status = 0

====
